---- MODULE Spec2Model ----
(***************************************************************************)
(* A model of the sumbot extractive summarizer: the engine                 *)
(* (summarizer.js: processText, cosineSimilarity, buildSimilarityMatrix,   *)
(* pageRank, summarize, summarizeAsync, extractKeywords) and the page      *)
(* script (main.js: the three local strategies, the Summarize click        *)
(* handler with its deferred computation, and the renderer).               *)
(*                                                                         *)
(* Numbers.  The code computes in IEEE doubles.  The model computes in     *)
(* fixed point: a real x is the integer round(x * SCALE), every division   *)
(* and square root rounds to the nearest unit, and NaN (0/0) is a value of *)
(* its own that the arithmetic propagates as JavaScript does.  Counts      *)
(* (token counts, indices, K) are plain integers.                          *)
(*                                                                         *)
(* Text.  Sentence splitting and term splitting are done by the library    *)
(* `compromise`; a text is modelled as what the library returns for it:    *)
(* a sequence of sentences, each a sequence of raw terms, plus a flag      *)
(* telling whether the raw string carries leading/trailing whitespace.     *)
(***************************************************************************)
EXTENDS Integers, Sequences, FiniteSets, TLC

VARIABLES
    text,          \* inputEl.value: the text in the textarea / the engine's input
    algo,          \* algorithmEl.value
    topK,          \* Number(summaryLengthEl.value)
    keywordCount,  \* Number(keywordCountEl.value)
    timers,        \* pending setTimeout callbacks, each with its captured text
    loading,       \* loadingIndicator is shown
    results,       \* summaryResultsEl is shown
    placeholder,   \* placeholderEl is shown
    rendered,      \* what renderSummaryAndKeywords last wrote to the page
    runs,          \* log of the deferred computations that ran (input, output)
    clicks,        \* number of clicks on the Summarize button so far
    clickLog,      \* log of the clicks on the Summarize button (text read, outcome)
    activeKeywords,\* the Set activeKeywords of the last render
    chipsLit,      \* the keyword chips carrying the class bg-yellow-200
    highlighted,   \* the rendered sentences carrying the class bg-yellow-100
    chipLog,       \* the last click on a keyword chip, with the page before it
    wordCount,     \* the number wordCountEl shows
    lengthValue,   \* the number lengthValueEl shows
    keywordCountShown, \* keywordCountContainer is shown
    call,          \* the last call of an exported engine function, with its result
    pr             \* the activation record of a running pageRank call

chipVars == <<activeKeywords, chipsLit, highlighted, chipLog>>

labelVars == <<wordCount, lengthValue, keywordCountShown>>

vars == <<text, algo, topK, keywordCount, timers, loading, results,
          placeholder, rendered, runs, clicks, clickLog, chipVars, labelVars,
          call, pr>>

uiVars == <<algo, topK, keywordCount, timers, loading, results,
            placeholder, rendered, runs, clicks, clickLog, chipVars, labelVars>>

-----------------------------------------------------------------------------
(* Bounds of the model *)

MaxSentences == 3   \* longest text, in sentences
MaxNodes == 3       \* largest similarity matrix handed to pageRank directly
MaxK == 4           \* largest requested summary length / keyword count
MaxIter == 3        \* largest explicit maxIter (besides the default)
MaxClicks == 2      \* clicks on the Summarize button in one run of the page
MaxSessionK == 3    \* the upper position of the slider in a session

-----------------------------------------------------------------------------
(* Fixed-point arithmetic standing for the code's doubles *)

SCALE == 10^4

NaN == 0 - 1        \* the only negative value a score or weight can take

IsNaN(x) == x < 0

\* a / b for integers a >= 0, b > 0, rounded to the nearest integer
RoundDiv(a, b) == (2 * a + b) \div (2 * b)

\* JavaScript a + b
Plus(a, b) == IF IsNaN(a) \/ IsNaN(b) THEN NaN ELSE a + b

\* JavaScript a * b on two fixed-point values
Times(a, b) == IF IsNaN(a) \/ IsNaN(b) THEN NaN ELSE RoundDiv(a * b, SCALE)

\* JavaScript a / b on two fixed-point values (or two counts): 0/0 and
\* anything involving NaN is NaN; x/0 for x > 0 is Infinity, which no
\* guarded path of the code produces and which is folded into NaN here.
Over(a, b) ==
    IF IsNaN(a) \/ IsNaN(b) \/ b = 0 THEN NaN ELSE RoundDiv(a * SCALE, b)

\* JavaScript a > 0 (false for NaN)
Positive(a) == ~IsNaN(a) /\ a > 0

\* JavaScript Math.abs(a - b)
AbsDiff(a, b) ==
    IF IsNaN(a) \/ IsNaN(b) THEN NaN ELSE IF a >= b THEN a - b ELSE b - a

RECURSIVE Newton(_, _)
Newton(n, x) ==
    LET y == (x + n \div x) \div 2
    IN  IF y >= x THEN x ELSE Newton(n, y)

\* floor(sqrt(n)) for n >= 0
ISqrt(n) == IF n = 0 THEN 0 ELSE Newton(n, n)

\* Math.sqrt of a count, as a fixed-point value
Sqrt(n) ==
    LET m == n * SCALE * SCALE
        r == ISqrt(m)
    IN  IF m - r * r > r THEN r + 1 ELSE r

RECURSIVE EagerUpTo(_, _)
EagerUpTo(s, n) == IF n = 0 THEN <<>> ELSE Append(EagerUpTo(s, n - 1), s[n])

\* s itself, with every element computed once (an array, not a recipe)
Eager(s) == EagerUpTo(s, Len(s))

RECURSIVE SumSeq(_)
\* arr.reduce((a, b) => a + b, 0)
SumSeq(s) == IF s = <<>> THEN 0 ELSE Plus(SumSeq(SubSeq(s, 1, Len(s) - 1)), s[Len(s)])

Min(a, b) == IF a <= b THEN a ELSE b
Max(a, b) == IF a >= b THEN a ELSE b

\* arr.slice(0, end): a negative end counts from the end of the array
Slice(s, end) ==
    LET e == IF end < 0 THEN Max(Len(s) + end, 0) ELSE Min(end, Len(s))
    IN  SubSeq(s, 1, e)

RECURSIVE InsertByKeyBefore(_, _)
\* an insertion that puts x before the elements of equal key: a sort that
\* reverses ties
InsertByKeyBefore(x, s) ==
    IF s = <<>> THEN <<x>>
    ELSE IF s[Len(s)].key < x.key THEN Append(s, x)
    ELSE Append(InsertByKeyBefore(x, SubSeq(s, 1, Len(s) - 1)), s[Len(s)])

\* Insert x into a sequence sorted by ascending .key, after every element
\* whose key is <= x.key
RECURSIVE InsertByKey(_, _)
InsertByKey(x, s) ==
    IF s = <<>> THEN <<x>>
    ELSE IF s[Len(s)].key <= x.key THEN Append(s, x)
    ELSE Append(InsertByKey(x, SubSeq(s, 1, Len(s) - 1)), s[Len(s)])

RECURSIVE SortByKey(_)
\* Array.prototype.sort with a comparator on .key: ascending and stable
SortByKey(s) ==
    IF s = <<>> THEN <<>>
    ELSE InsertByKey(s[Len(s)], SortByKey(SubSeq(s, 1, Len(s) - 1)))

\* scores.map((score, i) => ({score, i})).sort((a, b) => b.score - a.score)
\*       .map((x) => x.i): indices (0-based) by descending score, stable
RankByScore(scores) ==
    LET items == [n \in 1..Len(scores) |-> [key |-> 0 - scores[n], i |-> n - 1]]
        sorted == SortByKey(items)
    IN  [n \in 1..Len(sorted) |-> sorted[n].i]

\* indexes.sort((a, b) => a - b)
SortAscending(indexes) ==
    LET items == [n \in 1..Len(indexes) |-> [key |-> indexes[n], i |-> indexes[n]]]
        sorted == SortByKey(items)
    IN  [n \in 1..Len(sorted) |-> sorted[n].i]

-----------------------------------------------------------------------------
(* Texts *)

\* The raw terms the library can return
Terms ==
    {"the", "AI", "ai", "data", "7", "said",
     "applications", "range", "from", "healthcare", "to", "finance"}

\* String.prototype.toLowerCase on a term
toLowerCase(t) == IF t = "AI" THEN "ai" ELSE t

\* /^[a-z]+$/.test(w)
IsLowerAlpha(w) == w \in Terms \ {"AI", "7"}

\* The members of the stopword list among the terms
STOPWORDS == {"the", "from", "to"}

\* The sentences texts are made of, each the sequence of its raw terms
SentencePool ==
    { <<"AI", "data">>,
      <<"the", "data">>,
      <<"the">>,
      <<"ai", "7">>,
      <<"data", "the", "data", "ai">> }

\* Sequences over S of length 0..n
SeqsUpTo(S, n) == UNION {[1..m -> S] : m \in 0..n}

\* A raw text: its sentences, and whether whitespace surrounds them (drawn
\* for the texts of at most one sentence: trim is all that reads it)
Texts ==
    {t \in [pad : BOOLEAN, sents : SeqsUpTo(SentencePool, MaxSentences)] :
        t.pad => Len(t.sents) <= 1}

\* the value read without .trim()
trimNothing(t) == t

\* String.prototype.trim
trim(t) == [t EXCEPT !.pad = FALSE]

\* !text for a string: true of the empty string only
IsEmptyString(t) == t.sents = <<>> /\ ~t.pad

EmptyText == [pad |-> FALSE, sents |-> <<>>]

\* "AI applications range from healthcare to finance."
ExampleText ==
    [pad |-> FALSE,
     sents |-> << <<"AI", "applications", "range", "from", "healthcare", "to", "finance">> >>]

\* the texts the engine is called on
EngineTexts == Texts \cup {ExampleText}

\* The image of a sequence
Range(s) == {s[n] : n \in DOMAIN s}

RECURSIVE Filter(_, _)
\* arr.filter((x) => kept.has(x)): the elements of s that are in kept, in order
Filter(s, kept) ==
    IF s = <<>> THEN <<>>
    ELSE LET rest == Filter(SubSeq(s, 1, Len(s) - 1), kept)
         IN  IF s[Len(s)] \in kept THEN Append(rest, s[Len(s)]) ELSE rest

-----------------------------------------------------------------------------
(* summarizer.js: segmentation, tokenization, vectors *)

\* a split that returns one empty sentence for a text without any
splitSentencesNaive(t) == IF t.sents = <<>> THEN << <<>> >> ELSE t.sents

\* nlp(text).sentences().out('array'): whitespace yields no sentence
splitSentences(t) == t.sents

\* nlp(sentence).terms().out('array').map(toLowerCase)
lowerTerms(sentence) == [n \in 1..Len(sentence) |-> toLowerCase(sentence[n])]

\* .filter((w) => !STOPWORDS.has(w) && /^[a-z]+$/.test(w))
tokenize(sentence) ==
    LET terms == lowerTerms(sentence)
    IN  Filter(terms, {w \in Range(terms) : w \notin STOPWORDS /\ IsLowerAlpha(w)})

\* the first version of tokenize: .filter((w) => !STOPWORDS.has(w))
tokenizeV1(sentence) ==
    LET terms == lowerTerms(sentence)
    IN  Filter(terms, {w \in Range(terms) : w \notin STOPWORDS})

\* token -> number of occurrences
buildFrequencyMap(tokens) ==
    [w \in Range(tokens) |-> Cardinality({n \in DOMAIN tokens : tokens[n] = w})]

processText(t) ==
    LET sentences == splitSentences(t)
    IN  Eager([n \in 1..Len(sentences) |->
            [sentence |-> sentences[n],
             tokens |-> tokenize(sentences[n]),
             freqMap |-> buildFrequencyMap(tokenize(sentences[n]))]])

processTextV1(t) ==
    LET sentences == splitSentences(t)
    IN  Eager([n \in 1..Len(sentences) |->
            [sentence |-> sentences[n],
             tokens |-> tokenizeV1(sentences[n]),
             freqMap |-> buildFrequencyMap(tokenizeV1(sentences[n]))]])

-----------------------------------------------------------------------------
(* summarizer.js: similarity *)

RECURSIVE SumOver(_, _)
\* the sum of f[w] for w in S
SumOver(S, f) ==
    IF S = {} THEN 0
    ELSE LET w == CHOOSE x \in S : TRUE
         IN  f[w] + SumOver(S \ {w}, f)

\* vec[word] || 1: a missing word counted once
CountOrOne(vec, w) == IF w \in DOMAIN vec THEN vec[w] ELSE 1

\* vec[word] || 0
Count(vec, w) == IF w \in DOMAIN vec THEN vec[w] ELSE 0

\* Object.values(vec).reduce((s, v) => s + v * v, 0)
SumSquares(vec) == SumOver(DOMAIN vec, [w \in DOMAIN vec |-> vec[w] * vec[w]])

\* the dot product over the union of the keys
Dot(vecA, vecB) ==
    LET allWords == DOMAIN vecA \cup DOMAIN vecB
    IN  SumOver(allWords, [w \in allWords |-> Count(vecA, w) * Count(vecB, w)])

\* cosineSimilarity without its zero-magnitude guard
cosineSimilarityUnguarded(vecA, vecB) ==
    Over(Dot(vecA, vecB) * SCALE, Times(Sqrt(SumSquares(vecA)), Sqrt(SumSquares(vecB))))

cosineSimilarity(vecA, vecB) ==
    LET dot == Dot(vecA, vecB)
        magA == Sqrt(SumSquares(vecA))
        magB == Sqrt(SumSquares(vecB))
    IN  IF magA = 0 \/ magB = 0 THEN 0
        ELSE Over(dot * SCALE, Times(magA, magB))

\* a > b in place of a >= b
Above(a, b) == ~IsNaN(a) /\ ~IsNaN(b) /\ a > b

\* JavaScript a >= b (false for NaN)
AtLeast(a, b) == ~IsNaN(a) /\ ~IsNaN(b) /\ a >= b

\* the value cosineSimilarity returns for each pair i < j (1-based), as the
\* loops of buildSimilarityMatrix compute it
PairSims(sentencesData) ==
    [p \in {q \in (1..Len(sentencesData)) \X (1..Len(sentencesData)) : q[1] < q[2]} |->
        cosineSimilarity(sentencesData[p[1]].freqMap, sentencesData[p[2]].freqMap)]

\* buildSimilarityMatrix writing the upper triangle only
buildSimilarityMatrixUpper(sentencesData, threshold) ==
    LET N == Len(sentencesData)
        sims == PairSims(sentencesData)
    IN  Eager([i \in 1..N |-> Eager([j \in 1..N |->
            IF i < j
            THEN IF AtLeast(sims[<<i, j>>], threshold) THEN sims[<<i, j>>] ELSE 0
            ELSE 0])])

buildSimilarityMatrix(sentencesData, threshold) ==
    LET N == Len(sentencesData)
        sims == PairSims(sentencesData)
        value(i, j) == IF AtLeast(sims[<<i, j>>], threshold) THEN sims[<<i, j>>] ELSE 0
    IN  Eager([i \in 1..N |-> Eager([j \in 1..N |->
            IF i = j THEN 0
            ELSE IF i < j THEN value(i, j) ELSE value(j, i)])])

-----------------------------------------------------------------------------
(* summarizer.js: pageRank *)

DAMPING_PCT == 85          \* damping = 0.85
MAX_ITER_DEFAULT == 100    \* maxIter = 100
EPS_DEFAULT_MICRO == 1     \* eps = 1e-6, in millionths
GRAPH_THRESHOLD_PCT == 10  \* the threshold 0.1 every caller passes

MICRO == 10^6

\* a percentage as a fixed-point value
Pct(p) == (p * SCALE) \div 100

\* a fixed-point value divided by a count
DivByCount(x, n) == IF IsNaN(x) \/ n = 0 THEN NaN ELSE RoundDiv(x, n)

\* diff <= eps in place of diff < eps
BelowOrEqual(diff, epsMicro) == ~IsNaN(diff) /\ diff * (MICRO \div SCALE) <= epsMicro

\* JavaScript diff < eps (false for NaN), eps in millionths
Below(diff, epsMicro) == ~IsNaN(diff) /\ diff * (MICRO \div SCALE) < epsMicro

\* adjMatrix.map((row) => row.reduce((a, b) => a + b, 0))
OutDeg(adjMatrix) == Eager([j \in 1..Len(adjMatrix) |-> SumSeq(adjMatrix[j])])

RECURSIVE InflowUndamped(_, _, _, _, _, _)
\* the j-loop without the damping factor
InflowUndamped(adjMatrix, outDeg, rank, damping, i, j) ==
    IF j = 0 THEN 0
    ELSE LET before == InflowUndamped(adjMatrix, outDeg, rank, damping, i, j - 1)
         IN  IF outDeg[j] # 0 /\ Positive(adjMatrix[j][i])
             THEN Plus(before, Times(rank[j], Over(adjMatrix[j][i], outDeg[j])))
             ELSE before

RECURSIVE Inflow(_, _, _, _, _, _)
\* what the j-loop adds to newRank[i] for the rows 1..j
Inflow(adjMatrix, outDeg, rank, damping, i, j) ==
    IF j = 0 THEN 0
    ELSE LET before == Inflow(adjMatrix, outDeg, rank, damping, i, j - 1)
         IN  IF outDeg[j] # 0 /\ Positive(adjMatrix[j][i])
             THEN Plus(before,
                       Times(Times(damping, rank[j]), Over(adjMatrix[j][i], outDeg[j])))
             ELSE before

RECURSIVE RawRankUpTo(_, _, _, _, _)
\* the entries 1..i of newRank before it is normalized
RawRankUpTo(adjMatrix, outDeg, rank, damping, i) ==
    IF i = 0 THEN <<>>
    ELSE Append(RawRankUpTo(adjMatrix, outDeg, rank, damping, i - 1),
                Plus(DivByCount(SCALE - damping, Len(adjMatrix)),
                     Inflow(adjMatrix, outDeg, rank, damping, i, Len(adjMatrix))))

\* newRank before it is normalized
RawRank(adjMatrix, outDeg, rank, damping) ==
    RawRankUpTo(adjMatrix, outDeg, rank, damping, Len(adjMatrix))

RECURSIVE DivideUpTo(_, _, _)
DivideUpTo(v, sum, i) ==
    IF i = 0 THEN <<>> ELSE Append(DivideUpTo(v, sum, i - 1), Over(v[i], sum))

\* newRank[i] /= sum
Normalize(v) == DivideUpTo(v, SumSeq(v), Len(v))

\* an iteration that skips the normalization
IterateUnnormalized(adjMatrix, outDeg, rank, damping) ==
    RawRank(adjMatrix, outDeg, rank, damping)

\* the body of the for loop up to `rank = newRank`: the new rank vector
Iterate(adjMatrix, outDeg, rank, damping) ==
    Normalize(RawRank(adjMatrix, outDeg, rank, damping))

RECURSIVE L1DiffUpTo(_, _, _)
L1DiffUpTo(newRank, rank, i) ==
    IF i = 0 THEN 0
    ELSE Plus(L1DiffUpTo(newRank, rank, i - 1), AbsDiff(newRank[i], rank[i]))

\* newRank.reduce((s, v, i) => s + Math.abs(v - rank[i]), 0)
L1Diff(newRank, rank) == L1DiffUpTo(newRank, rank, Len(rank))

\* new Array(N).fill(1 / N)
InitialRank(N) == Eager([i \in 1..N |-> DivByCount(SCALE, N)])

\* one trip round the for loop, from the state of the loop (rank, whether
\* `break` was taken, the trips completed): nothing once the loop has been left
LoopBody(adjMatrix, outDeg, damping, epsMicro, st) ==
    IF st.broke THEN st
    ELSE LET newRank == Iterate(adjMatrix, outDeg, st.rank, damping)
         IN  [rank |-> newRank,
              broke |-> Below(L1Diff(newRank, st.rank), epsMicro),
              completed |-> st.completed + 1]

RECURSIVE PageRankLoop(_, _, _, _, _, _)
\* the state of the loop after at most n trips (the trips are split in two
\* halves to keep the evaluation shallow)
PageRankLoop(adjMatrix, outDeg, damping, epsMicro, st, n) ==
    IF st.broke \/ n <= 0 THEN st
    ELSE IF n = 1 THEN LoopBody(adjMatrix, outDeg, damping, epsMicro, st)
    ELSE PageRankLoop(adjMatrix, outDeg, damping, epsMicro,
                      PageRankLoop(adjMatrix, outDeg, damping, epsMicro, st, n \div 2),
                      n - n \div 2)

\* the loop of pageRank when it is left: the rank returned and the
\* iterations it took
pageRankRun(adjMatrix, damping, maxIter, epsMicro) ==
    PageRankLoop(adjMatrix, OutDeg(adjMatrix), damping, epsMicro,
                 [rank |-> InitialRank(Len(adjMatrix)), broke |-> FALSE, completed |-> 0],
                 maxIter)

pageRank(adjMatrix, damping, maxIter, epsMicro) ==
    pageRankRun(adjMatrix, damping, maxIter, epsMicro).rank

\* pageRank(simMatrix): every parameter at its default
pageRankDefault(adjMatrix) ==
    pageRank(adjMatrix, Pct(DAMPING_PCT), MAX_ITER_DEFAULT, EPS_DEFAULT_MICRO)

-----------------------------------------------------------------------------
(* summarizer.js: summarize, summarizeAsync *)

PROPORTION_DEFAULT_PCT == 20   \* proportion = 0.2

\* k ?? Math.max(1, Math.round(proportion * total)); k is <<>> for null
TargetCount(k, proportionPct, total) ==
    IF k # <<>> THEN k[1] ELSE Max(1, RoundDiv(proportionPct * total, 100))

\* the 0-based indices of the sentences summarize returns, in the order returned
summarizeIndexes(t, k, proportionPct) ==
    LET sentencesData == processTextV1(t)
        simMatrix == buildSimilarityMatrix(sentencesData, Pct(GRAPH_THRESHOLD_PCT))
        scores == pageRankDefault(simMatrix)
        ranked == RankByScore(scores)
        n == TargetCount(k, proportionPct, Len(sentencesData))
    IN  Slice(ranked, n)

\* the 0-based indices of the sentences summarizeAsync resolves to
summarizeAsyncIndexes(t, k, proportionPct) ==
    LET sentencesData == processText(t)
        simMatrix == buildSimilarityMatrix(sentencesData, Pct(GRAPH_THRESHOLD_PCT))
        scores == pageRankDefault(simMatrix)
        ranked == RankByScore(scores)
        n == TargetCount(k, proportionPct, Len(sentencesData))
    IN  SortAscending(Slice(ranked, n))

\* .map((r) => r.sentence)
SentencesAt(t, indexes) ==
    [n \in 1..Len(indexes) |-> splitSentences(t)[indexes[n] + 1]]

summarize(t, k, proportionPct) == SentencesAt(t, summarizeIndexes(t, k, proportionPct))

summarizeAsync(t, k, proportionPct) ==
    SentencesAt(t, summarizeAsyncIndexes(t, k, proportionPct))

-----------------------------------------------------------------------------
(* summarizer.js: extractKeywords *)

TOPK_DEFAULT == 10   \* topK = 10

RECURSIVE Flatten(_)
\* the terms of the whole text, in order
Flatten(sentences) ==
    IF sentences = <<>> THEN <<>>
    ELSE Flatten(SubSeq(sentences, 1, Len(sentences) - 1)) \o sentences[Len(sentences)]

\* nlp(text).terms().out('array').map(toLowerCase)
textTerms(t) == lowerTerms(Flatten(splitSentences(t)))

RECURSIVE SplitPhrases(_, _, _)
\* the forEach over tokens, then `if (current.length) phrases.push(current)`
SplitPhrases(tokens, phrases, current) ==
    IF tokens = <<>>
    THEN IF current # <<>> THEN Append(phrases, current) ELSE phrases
    ELSE IF tokens[1] \in STOPWORDS
         THEN SplitPhrases(Tail(tokens),
                           IF current # <<>> THEN Append(phrases, current) ELSE phrases,
                           <<>>)
         ELSE SplitPhrases(Tail(tokens), phrases, Append(current, tokens[1]))

candidatePhrases(t) == SplitPhrases(textTerms(t), <<>>, <<>>)

\* occurrences of word in a phrase
Occurrences(phrase, word) == Cardinality({n \in DOMAIN phrase : phrase[n] = word})

RECURSIVE wordFreq(_, _)
\* freq[word]: occurrences over all phrases
wordFreq(phrases, word) ==
    IF phrases = <<>> THEN 0
    ELSE wordFreq(Tail(phrases), word) + Occurrences(phrases[1], word)

RECURSIVE wordDegreeByLength(_, _)
\* degree with phrase.length added in place of unique.size
wordDegreeByLength(phrases, word) ==
    IF phrases = <<>> THEN 0
    ELSE wordDegreeByLength(Tail(phrases), word)
         + Occurrences(phrases[1], word) * Len(phrases[1])

RECURSIVE wordDegree(_, _)
\* degree[word]: unique.size added once per occurrence of word in the phrase
wordDegree(phrases, word) ==
    IF phrases = <<>> THEN 0
    ELSE wordDegree(Tail(phrases), word)
         + Occurrences(phrases[1], word) * Cardinality(Range(phrases[1]))

\* wordScore[word] = degree[word] / freq[word]
wordScore(phrases, word) ==
    DivByCount(wordDegree(phrases, word) * SCALE, wordFreq(phrases, word))

\* a canonical array index ("7"), which a JavaScript object lists before its
\* other keys, in ascending numeric order
IsArrayIndex(w) == w \in {"7"}

ArrayIndexValue(w) == IF w = "7" THEN 7 ELSE 0

RECURSIVE FirstSeen(_, _)
\* the distinct elements of s, in order of first occurrence, after those of seen
FirstSeen(s, seen) ==
    IF s = <<>> THEN seen
    ELSE FirstSeen(Tail(s), IF s[1] \in Range(seen) THEN seen ELSE Append(seen, s[1]))

\* the keys of freq / wordScore in property order: array indices ascending,
\* then the other words in insertion order
wordKeys(phrases) ==
    LET inserted == FirstSeen(Flatten(phrases), <<>>)
        indices == Filter(inserted, {w \in Range(inserted) : IsArrayIndex(w)})
        others == Filter(inserted, {w \in Range(inserted) : ~IsArrayIndex(w)})
        sorted == SortByKey([n \in 1..Len(indices) |->
                                [key |-> ArrayIndexValue(indices[n]), w |-> indices[n]]])
    IN  [n \in 1..Len(sorted) |-> sorted[n].w] \o others

\* p.reduce((s, w) => s + wordScore[w], 0)
phraseScore(phrases, p) == SumSeq([n \in 1..Len(p) |-> wordScore(phrases, p[n])])

\* items (with .score and .value) by descending score, stable; then
\* .slice(0, topK) and the values
TopByScore(items, k) ==
    LET sorted == SortByKey([n \in 1..Len(items) |->
                               [key |-> 0 - items[n].score, value |-> items[n].value]])
        top == Slice(sorted, k)
    IN  [n \in 1..Len(top) |-> top[n].value]

\* the locals freq, degree and wordScore when the scoring loops are done
wordStats(phrases) ==
    [w \in Range(Flatten(phrases)) |->
        [freq |-> wordFreq(phrases, w),
         degree |-> wordDegree(phrases, w),
         score |-> wordScore(phrases, w)]]

\* in phrase mode a keyword is the sequence of the words p.join(' ') joins
extractKeywords(t, k, mode) ==
    LET phrases == candidatePhrases(t)
        keys == wordKeys(phrases)
    IN  IF mode = "phrases"
        THEN TopByScore([n \in 1..Len(phrases) |->
                           [score |-> phraseScore(phrases, phrases[n]),
                            value |-> phrases[n]]], k)
        ELSE TopByScore([n \in 1..Len(keys) |->
                           [score |-> wordScore(phrases, keys[n]),
                            value |-> keys[n]]], k)

\* the first version of extractKeywords: in phrase mode it returns the
\* {phrase, score} objects themselves
extractKeywordsV1(t, k, mode) ==
    LET phrases == candidatePhrases(t)
        keys == wordKeys(phrases)
    IN  IF mode = "phrases"
        THEN TopByScore([n \in 1..Len(phrases) |->
                           [score |-> phraseScore(phrases, phrases[n]),
                            value |-> [phrase |-> phrases[n],
                                       score |-> phraseScore(phrases, phrases[n])]]], k)
        ELSE TopByScore([n \in 1..Len(keys) |->
                           [score |-> wordScore(phrases, keys[n]),
                            value |-> keys[n]]], k)

-----------------------------------------------------------------------------
(* main.js: the three local strategies, the graph branch, the renderer *)

Algorithms == {"frequency", "simple", "keywords", "graph"}

\* Array.from({length: n}, (_, i) => i): a negative length is no element
FirstIndexes(n) == [i \in 1..Max(n, 0) |-> i - 1]

\* sentencesData.map((s) => s.tokens.length)
frequencyScores(sentencesData) ==
    [n \in 1..Len(sentencesData) |-> Len(sentencesData[n].tokens)]

frequencySummarize(t, k) ==
    LET sentencesData == processText(t)
    IN  [sentencesData |-> sentencesData,
         rankedIndexes |-> Slice(RankByScore(frequencyScores(sentencesData)), k),
         keywords |-> <<>>]

\* simpleSummarize numbering the sentences from 1
simpleSummarizeOneBased(t, k) ==
    LET sentencesData == processText(t)
        first == FirstIndexes(Min(k, Len(sentencesData)))
    IN  [sentencesData |-> sentencesData,
         rankedIndexes |-> [n \in 1..Len(first) |-> Min(first[n] + 1, Len(sentencesData) - 1)],
         keywords |-> <<>>]

\* simpleSummarize without Math.min: Array.from({length: topK}, ...)
simpleSummarizeUncapped(t, k) ==
    [sentencesData |-> processText(t),
     rankedIndexes |-> FirstIndexes(k),
     keywords |-> <<>>]

simpleSummarize(t, k) ==
    LET sentencesData == processText(t)
    IN  [sentencesData |-> sentencesData,
         rankedIndexes |-> FirstIndexes(Min(k, Len(sentencesData))),
         keywords |-> <<>>]

\* the overlap counted in distinct words: new Set(s.tokens) filtered
keywordScoresDistinct(sentencesData, keywords) ==
    [n \in 1..Len(sentencesData) |->
        Cardinality(Range(sentencesData[n].tokens) \cap Range(keywords))]

\* s.tokens.filter((t) => keywords.includes(t)).length
keywordScores(sentencesData, keywords) ==
    [n \in 1..Len(sentencesData) |->
        Len(Filter(sentencesData[n].tokens, Range(keywords)))]

keywordSummarize(t, k, kc) ==
    LET sentencesData == processText(t)
        keywords == extractKeywords(t, kc, "words")
    IN  [sentencesData |-> sentencesData,
         rankedIndexes |-> Slice(RankByScore(keywordScores(sentencesData, keywords)), k),
         keywords |-> keywords]

\* the else branch of the deferred computation
graphSummarize(t, k, kc) ==
    LET sentencesData == processText(t)
        simMatrix == buildSimilarityMatrix(sentencesData, Pct(GRAPH_THRESHOLD_PCT))
        scores == pageRankDefault(simMatrix)
    IN  [sentencesData |-> sentencesData,
         rankedIndexes |-> Slice(RankByScore(scores), k),
         keywords |-> extractKeywords(t, kc, "words")]

\* the chain with a keyword list that outlives the run: each run adds its
\* keywords to those already on the page
DispatchCarryingKeywords(a, t, k, kc) ==
    LET r == IF a = "frequency" THEN frequencySummarize(t, k)
             ELSE IF a = "simple" THEN simpleSummarize(t, k)
             ELSE IF a = "keywords" THEN keywordSummarize(t, k, kc)
             ELSE graphSummarize(t, k, kc)
    IN  [r EXCEPT !.keywords = rendered.keywords \o @]

\* the if/else chain on algo
Dispatch(a, t, k, kc) ==
    IF a = "frequency" THEN frequencySummarize(t, k)
    ELSE IF a = "simple" THEN simpleSummarize(t, k)
    ELSE IF a = "keywords" THEN keywordSummarize(t, k, kc)
    ELSE graphSummarize(t, k, kc)

\* what renderSummaryAndKeywords puts on the page: the sentences at the
\* selected indexes, sorted ascending, and the keywords
renderSummaryAndKeywords(sentencesData, rankedIndexes, keywords) ==
    LET sorted == SortAscending(rankedIndexes)
    IN  [indexes |-> sorted,
         sentences |-> [n \in 1..Len(sorted) |-> sentencesData[sorted[n] + 1].sentence],
         keywords |-> keywords]

NothingRendered == [indexes |-> <<>>, sentences |-> <<>>, keywords |-> <<>>]

\* sentencesData[i].sentence of a sentence that does not exist: sentencesData[i]
\* is undefined and reading .sentence of it throws a TypeError, before the
\* renderer has written anything to the page
renderThrows(sentencesData, rankedIndexes) ==
    \E n \in DOMAIN rankedIndexes :
        rankedIndexes[n] \notin 0..(Len(sentencesData) - 1)

\* el.classList.toggle('hidden') in the place of add: whether el is shown after
classListToggleHidden(shown) == ~shown

\* el.classList.add('hidden'): whether el is shown after
classListAddHidden(shown) == FALSE

\* el.classList.remove('hidden'): whether el is shown after
classListRemoveHidden(shown) == TRUE

\* a timer queue that runs the callback registered last first
setTimeoutFirst(queue, captured) == <<captured>> \o queue

\* setTimeout(callback, 300), the callback closing over the trimmed text:
\* timers of equal delay run in the order of their registration
setTimeout(queue, captured) == Append(queue, captured)

RECURSIVE join(_)
\* the text of a sentence: its terms, a space between two
join(terms) ==
    IF terms = <<>> THEN ""
    ELSE IF Len(terms) = 1 THEN terms[1]
    ELSE join(SubSeq(terms, 1, Len(terms) - 1)) \o " " \o terms[Len(terms)]

\* s.innerText.toLowerCase()
innerTextLower(sentence) == join(lowerTerms(sentence))

\* String.prototype.includes: k occurs in str as a substring
includes(str, k) ==
    \E i \in 1..(Len(str) - Len(k) + 1) : SubSeq(str, i, i + Len(k) - 1) = k

\* the chips of the page: Object.entries(freqMap), one per distinct keyword
keywordChips(page) == Range(page.keywords)

\* a click that only ever adds the key to the set
toggleKeywordAddOnly(active, key) == active \cup {key}

\* if (activeKeywords.has(key)) activeKeywords.delete(key) else .add(key)
toggleKeyword(active, key) ==
    IF key \in active THEN active \ {key} ELSE active \cup {key}

\* the sentences that carry bg-yellow-100 when the forEach over .sentence is
\* done: Array.from(activeKeywords).some((k) => text.includes(k))
highlightSentences(page, active) ==
    {n \in 1..Len(page.sentences) :
        \E k \in active : includes(innerTextLower(page.sentences[n]), k)}

\* the arguments of renderSummaryAndKeywords when it returns: it reads
\* sentencesData and keywords, and sorts rankedIndexes in place
\* (Array.prototype.sort returns the array it was called on)
argumentsAfterRender(sentencesData, rankedIndexes, keywords) ==
    [sentencesData |-> sentencesData,
     rankedIndexes |-> SortAscending(rankedIndexes),
     keywords |-> keywords]

\* a cosineSimilarity that stores the 0 it reads for a missing word
\* (vec[word] = vec[word] || 0): every map ends with the words of the others
sentencesDataAfterMatrixFilled(sentencesData, threshold) ==
    LET words == UNION {DOMAIN sentencesData[n].freqMap : n \in DOMAIN sentencesData}
    IN  [n \in DOMAIN sentencesData |->
            [sentencesData[n] EXCEPT
                !.freqMap = [w \in IF Len(sentencesData) > 1 THEN words ELSE DOMAIN @ |->
                                Count(@, w)]]]

\* sentencesData when buildSimilarityMatrix returns: the function reads
\* .length and each .freqMap, and writes only its own matrix M
sentencesDataAfterMatrix(sentencesData, threshold) == sentencesData

\* adjMatrix when pageRank returns: the function reads the rows, and writes
\* only its own rank, outDeg and newRank
adjMatrixAfterPageRank(adjMatrix) == adjMatrix

\* the objects of the else branch of the deferred computation, as they are
\* when the branch is done (no matrix is built in the other branches)
graphBranchObjects(a, sentencesData) ==
    IF a # "graph"
    THEN [built |-> FALSE, sentencesData |-> sentencesData,
          simMatrix |-> <<>>, simMatrixAfter |-> <<>>]
    ELSE LET simMatrix == buildSimilarityMatrix(sentencesData, Pct(GRAPH_THRESHOLD_PCT))
         IN  [built |-> TRUE,
              sentencesData |-> sentencesDataAfterMatrix(sentencesData,
                                                         Pct(GRAPH_THRESHOLD_PCT)),
              simMatrix |-> simMatrix,
              simMatrixAfter |-> adjMatrixAfterPageRank(simMatrix)]

-----------------------------------------------------------------------------
(* The inputs the model draws *)

MaxKeywords == 2    \* largest keyword count the page is set to

KRange == (0 - 1)..MaxK

KeywordCounts == (0 - 1)..MaxKeywords

\* an explicit k, or <<>> for the default null
Proportions == {0, PROPORTION_DEFAULT_PCT, 50, 100}

\* the options of summarize: an explicit k (the proportion is then not read),
\* or k left null (<<>>) and a proportion
SummaryOptions ==
    {[k |-> <<k>>, proportionPct |-> PROPORTION_DEFAULT_PCT] : k \in KRange}
    \cup {[k |-> <<>>, proportionPct |-> p] : p \in Proportions}

Thresholds == {0, Pct(GRAPH_THRESHOLD_PCT), Pct(80), SCALE}

Modes == {"words", "phrases"}

MaxIters == (0..MaxIter) \cup {MAX_ITER_DEFAULT}

\* eps, in millionths: never met, the default, and a coarse one
Epsilons == {0, EPS_DEFAULT_MICRO, 200000}

Weights == {0, Pct(25), SCALE}

Pairs(n) == {q \in (1..n) \X (1..n) : q[1] < q[2]}

\* the symmetric n x n matrices over Weights with a zero diagonal
SymMatricesOf(n) ==
    { [i \in 1..n |-> [j \in 1..n |->
          IF i = j THEN 0 ELSE IF i < j THEN f[<<i, j>>] ELSE f[<<j, i>>]]] :
      f \in [Pairs(n) -> Weights] }

SymMatrices == UNION {SymMatricesOf(n) : n \in 0..MaxNodes}

-----------------------------------------------------------------------------
(* The page: main.js *)

NoCall == [op |-> "none"]
Idle == [pc |-> "idle"]

NoChip == [key |-> "none"]

\* inputEl.value.trim().split(/\s+/).filter(Boolean).length
countWords(t) == Len(Flatten(t.sents))

PageStart ==
    /\ timers = <<>>
    /\ loading = FALSE
    /\ results = FALSE
    /\ placeholder = TRUE
    /\ rendered = NothingRendered
    /\ runs = <<>>
    /\ clicks = 0
    /\ clickLog = <<>>
    /\ activeKeywords = {}
    /\ chipsLit = {}
    /\ highlighted = {}
    /\ chipLog = NoChip
    /\ wordCount = countWords(text)
    /\ lengthValue = topK
    /\ keywordCountShown = (algo = "keywords")

Init ==
    /\ text \in Texts
    /\ algo \in Algorithms
    /\ topK \in KRange
    /\ keywordCount \in KeywordCounts
    /\ PageStart
    /\ call = NoCall
    /\ pr = Idle

\* summarizeBtn 'click'
ClickSummarize ==
    /\ clicks < MaxClicks
    /\ clicks' = clicks + 1
    /\ LET t == trim(text)
       IN  IF IsEmptyString(t)
           THEN /\ clickLog' = Append(clickLog, [text |-> text, scheduled |-> FALSE,
                                                 runsBefore |-> Len(runs)])
                /\ UNCHANGED <<timers, loading, results, placeholder>>
           ELSE /\ clickLog' = Append(clickLog, [text |-> text, scheduled |-> TRUE,
                                                 runsBefore |-> Len(runs)])
                /\ placeholder' = classListAddHidden(placeholder)
                /\ results' = classListAddHidden(results)
                /\ loading' = classListRemoveHidden(loading)
                /\ timers' = setTimeout(timers, t)
    /\ UNCHANGED <<text, algo, topK, keywordCount, rendered, runs, chipVars,
                   labelVars, call, pr>>

\* the callback handed to setTimeout(..., 300); equal delays run in order
TimerFires ==
    /\ timers # <<>>
    /\ \E r \in {Dispatch(algo, Head(timers), topK, keywordCount)} :
         \E page \in {IF renderThrows(r.sentencesData, r.rankedIndexes)
                      THEN rendered
                      ELSE renderSummaryAndKeywords(r.sentencesData, r.rankedIndexes,
                                                    r.keywords)} :
           /\ runs' = Append(runs, [text |-> Head(timers), algo |-> algo,
                                    topK |-> topK, keywordCount |-> keywordCount,
                                    total |-> Len(r.sentencesData),
                                    rankedIndexes |-> r.rankedIndexes,
                                    sentencesData |-> r.sentencesData,
                                    graph |-> graphBranchObjects(algo, r.sentencesData),
                                    afterRender |->
                                        argumentsAfterRender(r.sentencesData,
                                                             r.rankedIndexes, r.keywords),
                                    threw |-> renderThrows(r.sentencesData,
                                                           r.rankedIndexes),
                                    page |-> page])
           /\ IF renderThrows(r.sentencesData, r.rankedIndexes)
              THEN \* the callback ends at the TypeError: the page stays as it is
                   UNCHANGED <<rendered, loading, results, chipVars>>
              ELSE /\ rendered' = page
                   /\ activeKeywords' = {}
                   /\ chipsLit' = {}
                   /\ highlighted' = {}
                   /\ chipLog' = NoChip
                   /\ loading' = classListAddHidden(loading)
                   /\ results' = classListRemoveHidden(results)
    /\ timers' = Tail(timers)
    /\ UNCHANGED <<text, algo, topK, keywordCount, placeholder, clicks, clickLog,
                   labelVars, call, pr>>

\* 'click' on the keyword chip of key (the listener renderSummaryAndKeywords
\* put on it)
ClickKeyword ==
    /\ \E key \in keywordChips(rendered) :
         \E active \in {toggleKeyword(activeKeywords, toLowerCase(key))} :
           /\ activeKeywords' = active
           /\ chipsLit' = IF toLowerCase(key) \in activeKeywords
                          THEN chipsLit \ {key} ELSE chipsLit \cup {key}
           /\ highlighted' = highlightSentences(rendered, active)
           /\ chipLog' = [key |-> key, active |-> activeKeywords,
                          highlighted |-> highlighted]
    /\ UNCHANGED <<text, algo, topK, keywordCount, timers, loading, results,
                   placeholder, rendered, runs, clicks, clickLog, labelVars, call, pr>>

Next == ClickSummarize \/ TimerFires

Spec == Init /\ [][Next]_vars

-----------------------------------------------------------------------------
(* The page in a session: the user edits the text and the controls between *)
(* the clicks, and clicks the keyword chips                                *)

\* "   " typed into the textarea
WhitespaceText == [pad |-> TRUE, sents |-> <<>>]

\* the texts of a session: nothing, whitespace, and two texts, one of them
\* typed with whitespace around it
SessionTexts ==
    {EmptyText, WhitespaceText,
     [pad |-> FALSE, sents |-> << <<"AI", "data">>, <<"said", "data">>, <<"the">> >>],
     [pad |-> TRUE, sents |-> << <<"the", "data">> >>]}

\* the positions of the slider and the entries of the keyword count
SessionKs == {1, MaxSessionK}

SessionKeywordCounts == {1, MaxKeywords}

InitSession ==
    /\ text \in SessionTexts
    /\ algo \in Algorithms
    /\ topK \in SessionKs
    /\ keywordCount \in SessionKeywordCounts
    /\ PageStart
    /\ call = NoCall
    /\ pr = Idle

\* the user edits the textarea: inputEl 'input'
EditText ==
    /\ \E t \in SessionTexts \ {text} :
         /\ text' = t
         /\ wordCount' = countWords(t)
    /\ UNCHANGED <<algo, topK, keywordCount, timers, loading, results, placeholder,
                   rendered, runs, clicks, clickLog, chipVars, lengthValue,
                   keywordCountShown, call, pr>>

\* the user moves the slider: summaryLengthEl 'input'
MoveSlider ==
    /\ \E k \in SessionKs \ {topK} :
         /\ topK' = k
         /\ lengthValue' = k
    /\ UNCHANGED <<text, algo, keywordCount, timers, loading, results, placeholder,
                   rendered, runs, clicks, clickLog, chipVars, wordCount,
                   keywordCountShown, call, pr>>

\* the user picks another algorithm: algorithmEl 'change'
ChangeAlgorithm ==
    /\ \E a \in Algorithms \ {algo} :
         /\ algo' = a
         /\ keywordCountShown' = (a = "keywords")
    /\ UNCHANGED <<text, topK, keywordCount, timers, loading, results, placeholder,
                   rendered, runs, clicks, clickLog, chipVars, wordCount,
                   lengthValue, call, pr>>

\* the user sets the keyword count: keywordCountEl has no listener
SetKeywordCount ==
    /\ \E kc \in SessionKeywordCounts \ {keywordCount} : keywordCount' = kc
    /\ UNCHANGED <<text, algo, topK, timers, loading, results, placeholder,
                   rendered, runs, clicks, clickLog, chipVars, labelVars, call, pr>>

NextSession ==
    \/ ClickSummarize
    \/ TimerFires
    \/ ClickKeyword
    \/ EditText
    \/ MoveSlider
    \/ ChangeAlgorithm
    \/ SetKeywordCount

SpecSession == InitSession /\ [][NextSession]_vars

-----------------------------------------------------------------------------
(* The engine called directly: summarizer.js *)

InitEngine ==
    /\ text \in EngineTexts
    /\ algo = "graph"
    /\ topK = 1
    /\ keywordCount = 0
    /\ PageStart
    /\ call = NoCall
    /\ pr = Idle

CallProcessText ==
    /\ call.op = "none"
    /\ call' = [op |-> "processText", result |-> processText(text)]
    /\ UNCHANGED <<text, pr>> /\ UNCHANGED uiVars

CallBuildSimilarityMatrix ==
    /\ call.op = "none"
    /\ \E threshold \in Thresholds, sentencesData \in {processText(text)} :
             call' = [op |-> "buildSimilarityMatrix",
                      sentencesData |-> sentencesData,
                      threshold |-> threshold,
                      sims |-> PairSims(sentencesData),
                      result |-> buildSimilarityMatrix(sentencesData, threshold)]
    /\ UNCHANGED <<text, pr>> /\ UNCHANGED uiVars

\* pageRank(simMatrix) on the matrix of the text, as every caller runs it
CallPageRankOfText ==
    /\ call.op = "none"
    /\ \E sentencesData \in {processText(text)} :
       \E simMatrix \in {buildSimilarityMatrix(sentencesData, Pct(GRAPH_THRESHOLD_PCT))} :
       \E run \in {pageRankRun(simMatrix, Pct(DAMPING_PCT), MAX_ITER_DEFAULT,
                                EPS_DEFAULT_MICRO)} :
           call' = [op |-> "pageRank",
                    sentencesData |-> sentencesData,
                    adjMatrix |-> simMatrix,
                    iterations |-> run.completed,
                    result |-> run.rank]
    /\ UNCHANGED <<text, pr>> /\ UNCHANGED uiVars

CallSummarize ==
    /\ call.op = "none"
    /\ \E o \in SummaryOptions :
       \E indexes \in {summarizeIndexes(text, o.k, o.proportionPct)} :
         call' = [op |-> "summarize", k |-> o.k, proportionPct |-> o.proportionPct,
                  total |-> Len(splitSentences(text)),
                  indexes |-> indexes,
                  result |-> SentencesAt(text, indexes)]
    /\ UNCHANGED <<text, pr>> /\ UNCHANGED uiVars

CallSummarizeAsync ==
    /\ call.op = "none"
    /\ \E o \in SummaryOptions :
       \E indexes \in {summarizeAsyncIndexes(text, o.k, o.proportionPct)} :
         call' = [op |-> "summarizeAsync", k |-> o.k, proportionPct |-> o.proportionPct,
                  total |-> Len(splitSentences(text)),
                  indexes |-> indexes,
                  result |-> SentencesAt(text, indexes)]
    /\ UNCHANGED <<text, pr>> /\ UNCHANGED uiVars

CallExtractKeywords ==
    /\ call.op = "none"
    /\ \E k \in KRange \cup {TOPK_DEFAULT}, mode \in Modes :
         call' = [op |-> "extractKeywords", topK |-> k, mode |-> mode,
                  phrases |-> candidatePhrases(text),
                  stats |-> wordStats(candidatePhrases(text)),
                  items |-> "strings",
                  result |-> extractKeywords(text, k, mode)]
    /\ UNCHANGED <<text, pr>> /\ UNCHANGED uiVars

\* the first version of extractKeywords
CallExtractKeywordsV1 ==
    /\ call.op = "none"
    /\ \E k \in KRange \cup {TOPK_DEFAULT}, mode \in Modes :
       \E result \in {extractKeywordsV1(text, k, mode)} :
         call' = [op |-> "extractKeywordsV1", topK |-> k, mode |-> mode,
                  phrases |-> candidatePhrases(text),
                  stats |-> wordStats(candidatePhrases(text)),
                  items |-> IF mode = "phrases" /\ result # <<>>
                            THEN "objects" ELSE "strings",
                  result |-> result]
    /\ UNCHANGED <<text, pr>> /\ UNCHANGED uiVars

NextEngine ==
    \/ CallProcessText
    \/ CallBuildSimilarityMatrix
    \/ CallPageRankOfText
    \/ CallSummarize
    \/ CallSummarizeAsync
    \/ CallExtractKeywords
    \/ CallExtractKeywordsV1

SpecEngine == InitEngine /\ [][NextEngine]_vars

-----------------------------------------------------------------------------
(* pageRank, iteration by iteration *)

InitPageRank ==
    /\ text = EmptyText
    /\ algo = "graph"
    /\ topK = 1
    /\ keywordCount = 0
    /\ PageStart
    /\ call = NoCall
    /\ pr = Idle

\* entry: N, rank and outDeg are set up
CallPageRank ==
    /\ pr.pc = "idle"
    /\ \E adjMatrix \in SymMatrices, maxIter \in MaxIters, epsMicro \in Epsilons :
         pr' = [pc |-> "loop",
                adjMatrix |-> adjMatrix,
                outDeg |-> OutDeg(adjMatrix),
                rank |-> InitialRank(Len(adjMatrix)),
                raw |-> <<>>,
                damping |-> Pct(DAMPING_PCT),
                maxIter |-> maxIter,
                eps |-> epsMicro,
                iter |-> 0,
                completed |-> 0,
                diff |-> 0]
    /\ UNCHANGED <<text, call>> /\ UNCHANGED uiVars

\* one pass through the body of the for loop
PageRankIterate ==
    /\ pr.pc = "loop"
    /\ pr.iter < pr.maxIter
    /\ \E newRank \in {Iterate(pr.adjMatrix, pr.outDeg, pr.rank, pr.damping)} :
       \E diff \in {L1Diff(newRank, pr.rank)} :
           pr' = [pr EXCEPT !.rank = newRank,
                            !.raw = RawRank(pr.adjMatrix, pr.outDeg, pr.rank, pr.damping),
                            !.diff = diff,
                            !.completed = @ + 1,
                            !.iter = IF Below(diff, pr.eps) THEN @ ELSE @ + 1,
                            !.pc = IF Below(diff, pr.eps) THEN "break" ELSE "loop"]
    /\ UNCHANGED <<text, call>> /\ UNCHANGED uiVars

\* return rank: after the break, or when iter < maxIter fails
PageRankReturn ==
    /\ \/ pr.pc = "break"
       \/ pr.pc = "loop" /\ pr.iter >= pr.maxIter
    /\ call' = [op |-> "pageRank", adjMatrix |-> pr.adjMatrix, result |-> pr.rank]
    /\ pr' = [pr EXCEPT !.pc = "done"]
    /\ UNCHANGED text /\ UNCHANGED uiVars

NextPageRank == CallPageRank \/ PageRankIterate \/ PageRankReturn

SpecPageRank == InitPageRank /\ [][NextPageRank]_vars

-----------------------------------------------------------------------------
(* Properties *)

StrictlyAscending(s) == \A m, n \in DOMAIN s : m < n => s[m] < s[n]

RECURSIVE Total(_)
Total(v) == IF v = <<>> THEN 0 ELSE v[1] + Total(Tail(v))

\* every entry a number >= 0, and the entries sum to 1 up to the rounding
\* of each entry (half a unit of the fixed point per entry)
IsDistribution(v) ==
    /\ \A i \in DOMAIN v : v[i] >= 0
    /\ 2 * Total(v) <= 2 * SCALE + Len(v)
    /\ 2 * Total(v) >= 2 * SCALE - Len(v)

\* diff < eps, eps in millionths
ConvergedAt(diff, epsMicro) == diff >= 0 /\ diff * (MICRO \div SCALE) < epsMicro

NoTokens(sentenceData) == DOMAIN sentenceData.freqMap = {}

\* C1: for every strategy and every text of N >= 1 sentences, the number of
\* sentence indices selected equals min(K, N) with K clamped to [1, N]:
\* a K above N selects N sentences, a K below 1 selects one.
C1_SelectedCountClamped ==
    \A n \in DOMAIN runs :
        runs[n].total >= 1 =>
            Len(runs[n].rankedIndexes) = Min(Max(runs[n].topK, 1), runs[n].total)

\* C2: the sentences every entry point returns (the rendered page, summarize,
\* summarizeAsync) are in strictly ascending order of their original index.
C2_OriginalOrder ==
    /\ \A n \in DOMAIN runs : StrictlyAscending(runs[n].page.indexes)
    /\ call.op \in {"summarize", "summarizeAsync"} => StrictlyAscending(call.indexes)

\* C3: for N >= 1 and a symmetric, non-negative, zero-diagonal matrix, the
\* rank vector of pageRank is a probability distribution (entries >= 0 that
\* sum to 1) on entry, after every completed iteration and when returned,
\* for every maxIter >= 0 and every eps.
C3_RankIsDistribution ==
    /\ pr.pc # "idle" /\ Len(pr.adjMatrix) >= 1 => IsDistribution(pr.rank)
    /\ call.op = "pageRank" /\ Len(call.adjMatrix) >= 1 => IsDistribution(call.result)

\* C3 happens: pageRank has returned for a 3 x 3 matrix after at least two
\* iterations, with a rank vector that is not uniform.
C3_Witness ==
    /\ pr.pc = "done"
    /\ Len(pr.adjMatrix) = 3
    /\ pr.completed >= 2
    /\ call.op = "pageRank"
    /\ \E i, j \in DOMAIN call.result : call.result[i] # call.result[j]

\* C4: the matrix buildSimilarityMatrix returns is N x N, symmetric, with a
\* zero diagonal, and cosineSimilarity gives the same value for a pair of
\* frequency maps in either order.
C4_SymmetricZeroDiagonal ==
    call.op = "buildSimilarityMatrix" =>
        LET N == Len(call.sentencesData)
            M == call.result
        IN  /\ Len(M) = N
            /\ \A i \in 1..N : Len(M[i]) = N /\ M[i][i] = 0
            /\ \A i, j \in 1..N : M[i][j] = M[j][i]
            /\ \A i, j \in 1..N :
                 cosineSimilarity(call.sentencesData[i].freqMap,
                                  call.sentencesData[j].freqMap)
                 = cosineSimilarity(call.sentencesData[j].freqMap,
                                    call.sentencesData[i].freqMap)

\* C4 happens: a 3 x 3 matrix was built with a threshold that kept one
\* similarity and zeroed another.
C4_Witness ==
    /\ call.op = "buildSimilarityMatrix"
    /\ Len(call.result) = 3
    /\ \E p \in DOMAIN call.sims : call.sims[p] > 0 /\ call.result[p[1]][p[2]] > 0
    /\ \E p \in DOMAIN call.sims : call.sims[p] > 0 /\ call.result[p[1]][p[2]] = 0

\* C5: a sentence with an empty frequency map has cosine similarity exactly
\* 0 (not NaN) with every other sentence, its row and column of the matrix
\* are 0, and every PageRank score of that matrix is a number.
C5_ZeroNormIsZero ==
    /\ call.op = "buildSimilarityMatrix" =>
         \A p \in DOMAIN call.sims :
            NoTokens(call.sentencesData[p[1]]) \/ NoTokens(call.sentencesData[p[2]]) =>
                /\ call.sims[p] = 0
                /\ call.result[p[1]][p[2]] = 0
                /\ call.result[p[2]][p[1]] = 0
    /\ call.op = "pageRank" =>
         /\ \A i, j \in DOMAIN call.adjMatrix :
               NoTokens(call.sentencesData[i]) => call.adjMatrix[i][j] = 0
         /\ \A i \in DOMAIN call.result : ~IsNaN(call.result[i])

\* C5 happens: the matrix of a text with an all-stopword sentence and two
\* sentences that share a word was built.
C5_Witness ==
    /\ call.op = "buildSimilarityMatrix"
    /\ \E i \in DOMAIN call.sentencesData : NoTokens(call.sentencesData[i])
    /\ \E i, j \in DOMAIN call.result : call.result[i][j] > 0

C7_SimpleIsFirstK ==
    \A n \in DOMAIN runs :
        LET r == runs[n]
        IN  r.algo = "simple" /\ 1 <= r.topK /\ r.topK <= r.total =>
                /\ r.rankedIndexes = [i \in 1..r.topK |-> i - 1]
                /\ r.page.indexes = [i \in 1..r.topK |-> i - 1]
                /\ r.page.sentences = SubSeq(r.text.sents, 1, r.topK)

\* C7 happens: the simple strategy ran with K = 2 on three sentences, the
\* first of which holds an upper-case term.
C7_Witness ==
    \E n \in DOMAIN runs :
        /\ runs[n].algo = "simple"
        /\ runs[n].topK = 2
        /\ runs[n].total = 3
        /\ "AI" \in Range(runs[n].text.sents[1])
        /\ rendered = runs[n].page

\* C8: extractKeywords called with a negative topK behaves as with topK = 0
\* and returns the empty list, in word and in phrase mode.
C8_NegativeTopKIsZero ==
    call.op = "extractKeywords" /\ call.topK < 0 => call.result = <<>>

\* C9: for a text without sentences (empty or whitespace only) every engine
\* operation returns an empty result.
C9_EmptyInEmptyOut ==
    text.sents = <<>> /\ call.op # "none" => call.result = <<>>

\* C9 happens: summarizeAsync was called on a whitespace-only text.
C9_Witness ==
    /\ text.sents = <<>>
    /\ text.pad
    /\ call.op = "summarizeAsync"

\* the safety part of C10
C10_Safety ==
    pr.pc # "idle" =>
        /\ pr.completed <= pr.maxIter
        /\ pr.pc = "loop" /\ pr.completed > 0 => ~ConvergedAt(pr.diff, pr.eps)
        /\ pr.pc = "break" => ConvergedAt(pr.diff, pr.eps)
        /\ pr.pc = "done" =>
             /\ \/ pr.completed >= 1 /\ ConvergedAt(pr.diff, pr.eps)
                \/ pr.completed = pr.maxIter
             /\ call.op = "pageRank"
             /\ call.result = pr.rank
             /\ Len(pr.adjMatrix) >= 1 => IsDistribution(call.result)

\* what is left of a call of pageRank: the iterations not yet started, then
\* the return
Remaining ==
    CASE pr.pc = "loop" -> 2 + (pr.maxIter - pr.iter)
      [] pr.pc = "break" -> 1
      [] OTHER -> 0

\* C10: pageRank terminates (every step of a call decreases a measure that
\* is a natural number); it completes at most maxIter iterations, leaves
\* the loop after the first iteration whose L1 difference is below eps, and
\* at the cap returns the normalized rank vector of the last iteration.
C10_Terminates ==
    /\ []C10_Safety
    /\ [](Remaining >= 0)
    /\ [][pr.pc \in {"loop", "break"} => Remaining' < Remaining]_vars

\* C10 happens: the cap of at least two iterations was reached without
\* convergence and pageRank returned.
C10_Witness ==
    /\ pr.pc = "done"
    /\ pr.maxIter >= 2
    /\ pr.completed = pr.maxIter
    /\ ~ConvergedAt(pr.diff, pr.eps)
    /\ Len(pr.adjMatrix) >= 2

\* no two sentences have a retained token in common
DisjointVocabularies(sentencesData) ==
    \A i, j \in DOMAIN sentencesData :
        i # j => DOMAIN sentencesData[i].freqMap \cap DOMAIN sentencesData[j].freqMap = {}

AllZero(M) == \A i, j \in DOMAIN M : M[i][j] = 0

\* C11: if no two sentences share a retained token, every entry of the
\* similarity matrix is 0 (whatever the threshold), and pageRank on that
\* matrix, called as every caller calls it, returns 1/N for every sentence
\* and leaves its loop after the first iteration.
C11_DisjointIsUniform ==
    /\ call.op = "buildSimilarityMatrix" /\ DisjointVocabularies(call.sentencesData) =>
         /\ \A p \in DOMAIN call.sims : call.sims[p] = 0
         /\ AllZero(call.result)
    /\ call.op = "pageRank" /\ Len(call.sentencesData) >= 1
          /\ DisjointVocabularies(call.sentencesData) =>
         /\ AllZero(call.adjMatrix)
         /\ \A i \in DOMAIN call.result :
               call.result[i] = RoundDiv(SCALE, Len(call.sentencesData))
         /\ call.iterations = 1

\* C11 happens: pageRank ran on the matrix of three sentences, two of them
\* with tokens, that share no token.
C11_Witness ==
    /\ call.op = "pageRank"
    /\ Len(call.sentencesData) = 3
    /\ DisjointVocabularies(call.sentencesData)
    /\ \E i, j \in DOMAIN call.sentencesData :
          /\ i # j
          /\ ~NoTokens(call.sentencesData[i])
          /\ ~NoTokens(call.sentencesData[j])

\* |a - b| <= tol, for numbers
Near(a, b, tol) == a >= 0 /\ b >= 0 /\ a - b <= tol /\ b - a <= tol

\* the sum of row j
OutWeightSum(M, j) == Total(M[j])

\* (1-d)/N + d * the sum over the j with M[j][i] > 0 and a positive row sum
\* of (M[j][i] / outWeightSum[j]) * score[j]
FormulaRaw(M, score, d, i) ==
    LET N == Len(M)
        share == [j \in 1..N |->
                    IF M[j][i] > 0 /\ OutWeightSum(M, j) > 0
                    THEN RoundDiv(M[j][i] * score[j], OutWeightSum(M, j))
                    ELSE 0]
    IN  RoundDiv(SCALE - d, N) + RoundDiv(d * Total(share), SCALE)

\* C12: pageRank starts from 1/N for every node; each iteration computes,
\* before normalization, new[i] = (1-d)/N + d * sum over j with M[j][i] > 0
\* and outWeightSum[j] > 0 of (M[j][i] / outWeightSum[j]) * score[j], so a
\* node whose row sum is 0 adds nothing to any node; the new vector is then
\* divided by its sum. The formula is met to the rounding of the products
\* of one entry: one unit of the fixed point per node, and one.
C12_IterationFormula ==
    [][/\ pr.pc = "idle" /\ pr'.pc = "loop" =>
            \A i \in DOMAIN pr'.rank : pr'.rank[i] = RoundDiv(SCALE, Len(pr'.adjMatrix))
       /\ pr.pc = "loop" /\ pr'.completed = pr.completed + 1 =>
            /\ Len(pr'.raw) = Len(pr.adjMatrix)
            /\ Len(pr'.rank) = Len(pr.adjMatrix)
            /\ \A i \in DOMAIN pr'.raw :
                  /\ Near(pr'.raw[i],
                          FormulaRaw(pr.adjMatrix, pr.rank, pr.damping, i),
                          Len(pr.adjMatrix) + 1)
                  /\ (\A j \in DOMAIN pr.adjMatrix :
                         pr.adjMatrix[j][i] = 0 \/ OutWeightSum(pr.adjMatrix, j) = 0)
                       => pr'.raw[i] = RoundDiv(SCALE - pr.damping, Len(pr.adjMatrix))
                  /\ pr'.rank[i] = RoundDiv(pr'.raw[i] * SCALE, Total(pr'.raw))
      ]_vars

\* C12 happens: a second iteration ran on a 3 x 3 matrix with unequal weights
\* and an isolated node, from a rank vector that is not uniform.
C12_Witness ==
    /\ pr.pc # "idle"
    /\ pr.completed >= 2
    /\ Len(pr.adjMatrix) = 3
    /\ \E j \in DOMAIN pr.adjMatrix : OutWeightSum(pr.adjMatrix, j) = 0
    /\ \E i, j \in DOMAIN pr.raw : pr.raw[i] # pr.raw[j]

\* C13: buildSimilarityMatrix computes the similarity of each pair i < j
\* once and writes the one value to the cells (i,j) and (j,i); a similarity
\* below the threshold is stored as 0, one equal to the threshold is kept,
\* so every cell that is not 0 is at least the threshold.
C13_ThresholdAndMirror ==
    call.op = "buildSimilarityMatrix" =>
        LET N == Len(call.sentencesData)
            M == call.result
        IN  /\ DOMAIN call.sims = {q \in (1..N) \X (1..N) : q[1] < q[2]}
            /\ \A p \in DOMAIN call.sims :
                  LET sim == call.sims[p]
                      kept == IF sim < call.threshold THEN 0 ELSE sim
                  IN  /\ M[p[1]][p[2]] = kept
                      /\ M[p[2]][p[1]] = kept
            /\ \A i, j \in 1..N : M[i][j] # 0 => M[i][j] >= call.threshold

\* C13 happens: with a threshold above 0, one pair had a similarity equal to
\* the threshold, which was kept, and another a similarity below it, which
\* was not.
C13_Witness ==
    /\ call.op = "buildSimilarityMatrix"
    /\ call.threshold > 0
    /\ \E p \in DOMAIN call.sims :
          call.sims[p] = call.threshold /\ call.result[p[1]][p[2]] = call.threshold
    /\ \E p \in DOMAIN call.sims :
          /\ call.sims[p] > 0
          /\ call.sims[p] < call.threshold
          /\ call.result[p[1]][p[2]] = 0

\* the terms of a raw sentence that are retained as tokens: lower-cased, not
\* a stopword, letters only
RetainedCount(sentence) ==
    Cardinality({n \in DOMAIN sentence :
                    /\ toLowerCase(sentence[n]) \notin STOPWORDS
                    /\ IsLowerAlpha(toLowerCase(sentence[n]))})

\* index a (0-based) is ranked before index b under the scores
RankedBefore(score, a, b) ==
    score[a + 1] > score[b + 1] \/ (score[a + 1] = score[b + 1] /\ a < b)

\* selected lists, best first, the sentences that rank before all the others
IsTopRanking(selected, score) ==
    /\ \A m, n \in DOMAIN selected :
          m < n => RankedBefore(score, selected[m], selected[n])
    /\ \A m \in DOMAIN selected : \A b \in 0..(Len(score) - 1) :
          b \notin Range(selected) => RankedBefore(score, selected[m], b)

\* C14: with the frequency strategy the score of a sentence is the number of
\* its retained tokens, and of two sentences with the same score the one
\* with the smaller index ranks first, so the selection takes the lower
\* indices of a tie at the cut-off.
C14_FrequencyRanking ==
    \A n \in DOMAIN runs :
        runs[n].algo = "frequency" =>
            IsTopRanking(runs[n].rankedIndexes,
                         [m \in 1..Len(runs[n].text.sents) |->
                             RetainedCount(runs[n].text.sents[m])])

\* C14 happens: the frequency strategy selected a later sentence with more
\* tokens first, and of two sentences with equally many tokens only one.
C14_Witness ==
    \E n \in DOMAIN runs :
        LET r == runs[n]
        IN  /\ r.algo = "frequency"
            /\ Len(r.rankedIndexes) = 2
            /\ r.rankedIndexes[1] > r.rankedIndexes[2]
            /\ \E b \in 0..(r.total - 1) :
                  /\ b \notin Range(r.rankedIndexes)
                  /\ RetainedCount(r.text.sents[b + 1])
                       = RetainedCount(r.text.sents[r.rankedIndexes[2] + 1])
                  /\ RetainedCount(r.text.sents[b + 1]) > 0

\* the retained tokens of a raw sentence, each occurrence counted, that are
\* in the keyword list
OverlapCount(sentence, keywords) ==
    Cardinality({n \in DOMAIN sentence :
                    /\ toLowerCase(sentence[n]) \notin STOPWORDS
                    /\ IsLowerAlpha(toLowerCase(sentence[n]))
                    /\ toLowerCase(sentence[n]) \in Range(keywords)})

\* C15: with the keywords strategy the keyword list is the word-mode list
\* extracted from the same text with the keyword count of the page (at most
\* that many words), the score of a sentence is the number of its retained
\* tokens, each occurrence counted, that are in the list, and sentences of
\* equal score rank by ascending index.
C15_KeywordOverlapRanking ==
    \A n \in DOMAIN runs :
        LET r == runs[n]
        IN  r.algo = "keywords" =>
              /\ r.page.keywords = extractKeywords(r.text, r.keywordCount, "words")
              /\ r.keywordCount >= 0 => Len(r.page.keywords) <= r.keywordCount
              /\ IsTopRanking(r.rankedIndexes,
                              [m \in 1..Len(r.text.sents) |->
                                  OverlapCount(r.text.sents[m], r.page.keywords)])

\* C15 happens: the keywords strategy selected a sentence that holds a keyword
\* twice ahead of an earlier one, and left out a sentence whose tokens are not
\* keywords.
C15_Witness ==
    \E n \in DOMAIN runs :
        LET r == runs[n]
        IN  /\ r.algo = "keywords"
            /\ r.rankedIndexes # <<>>
            /\ r.rankedIndexes[1] > 0
            /\ \E w \in Range(r.page.keywords) :
                  Cardinality({m \in DOMAIN r.text.sents[r.rankedIndexes[1] + 1] :
                                  toLowerCase(r.text.sents[r.rankedIndexes[1] + 1][m]) = w}) = 2
            /\ \E b \in 0..(r.total - 1) :
                  /\ b \notin Range(r.rankedIndexes)
                  /\ RetainedCount(r.text.sents[b + 1]) > 0
                  /\ OverlapCount(r.text.sents[b + 1], r.page.keywords) = 0

\* the maximal runs of consecutive non-stopword terms, as the pairs of their
\* first and last position
MaximalRuns(terms) ==
    {r \in (DOMAIN terms) \X (DOMAIN terms) :
        /\ r[1] <= r[2]
        /\ \A n \in r[1]..r[2] : terms[n] \notin STOPWORDS
        /\ r[1] = 1 \/ terms[r[1] - 1] \in STOPWORDS
        /\ r[2] = Len(terms) \/ terms[r[2] + 1] \in STOPWORDS}

\* phrases are the maximal runs of terms, in the order of the text
ArePhrasesOf(phrases, terms) ==
    /\ Len(phrases) = Cardinality(MaximalRuns(terms))
    /\ \A k \in DOMAIN phrases :
          \E r \in MaximalRuns(terms) :
              /\ phrases[k] = SubSeq(terms, r[1], r[2])
              /\ Cardinality({q \in MaximalRuns(terms) : q[1] < r[1]}) = k - 1

OccurrencesIn(phrase, w) == Cardinality({n \in DOMAIN phrase : phrase[n] = w})

DistinctWords(phrase) == Cardinality({phrase[n] : n \in DOMAIN phrase})

\* occurrences of w across all phrases
FrequencyOf(phrases, w) ==
    Total([k \in 1..Len(phrases) |-> OccurrencesIn(phrases[k], w)])

\* the distinct-word counts of the phrases w appears in, each phrase once
DegreePerPhrase(phrases, w) ==
    Total([k \in 1..Len(phrases) |->
             IF OccurrencesIn(phrases[k], w) > 0 THEN DistinctWords(phrases[k]) ELSE 0])

\* the distinct-word count of its phrase, for every occurrence of w
DegreePerOccurrence(phrases, w) ==
    Total([k \in 1..Len(phrases) |->
             OccurrencesIn(phrases[k], w) * DistinctWords(phrases[k])])

\* C16 as stated: the candidate phrases are the maximal runs of non-stopword
\* tokens of the whole text; the frequency of a word is its number of
\* occurrences across the phrases, its degree the sum over the phrases it
\* appears in of the phrase's distinct-word count, its score degree / frequency.
C16_DegreeOncePerPhrase ==
    call.op = "extractKeywords" =>
        /\ ArePhrasesOf(call.phrases, textTerms(text))
        /\ DOMAIN call.stats = {w \in Range(textTerms(text)) : w \notin STOPWORDS}
        /\ \A w \in DOMAIN call.stats :
              /\ call.stats[w].freq = FrequencyOf(call.phrases, w)
              /\ call.stats[w].degree = DegreePerPhrase(call.phrases, w)
              /\ call.stats[w].score
                   = RoundDiv(DegreePerPhrase(call.phrases, w) * SCALE,
                              FrequencyOf(call.phrases, w))

\* C16 amended: as stated, but the degree of a word is the sum over its
\* occurrences of the distinct-word count of the phrase the occurrence is in
\* (a word twice in one phrase counts that phrase twice).
C16_DegreePerOccurrence ==
    call.op = "extractKeywords" =>
        /\ ArePhrasesOf(call.phrases, textTerms(text))
        /\ DOMAIN call.stats = {w \in Range(textTerms(text)) : w \notin STOPWORDS}
        /\ \A w \in DOMAIN call.stats :
              /\ call.stats[w].freq = FrequencyOf(call.phrases, w)
              /\ call.stats[w].degree = DegreePerOccurrence(call.phrases, w)
              /\ call.stats[w].score
                   = RoundDiv(DegreePerOccurrence(call.phrases, w) * SCALE,
                              FrequencyOf(call.phrases, w))

\* C16 happens: extractKeywords ran on a text with a stopword between two
\* phrases, one of which holds a word twice.
C16_Witness ==
    /\ call.op = "extractKeywords"
    /\ Len(call.phrases) >= 2
    /\ \E k \in DOMAIN call.phrases : DistinctWords(call.phrases[k]) < Len(call.phrases[k])
    /\ \E w \in DOMAIN call.stats : call.stats[w].score > SCALE

\* the sum of the scores of the words of a phrase
PhraseScoreOf(stats, phrase) ==
    Total([n \in 1..Len(phrase) |-> stats[phrase[n]].score])

\* how often x occurs in the sequence s
TimesIn(s, x) == Cardinality({n \in DOMAIN s : s[n] = x})

\* one phrase of three distinct words and two phrases of one word, every
\* word occurring once in the text
IsThreeOneOne(phrases) ==
    /\ Len(phrases) = 3
    /\ \E k \in 1..3 :
          /\ Len(phrases[k]) = 3
          /\ \A m \in (1..3) \ {k} : Len(phrases[m]) = 1
    /\ \A k, m \in 1..3 : \A w \in Range(phrases[k]) :
          TimesIn(phrases[k], w) = 1 /\ (m # k => w \notin Range(phrases[m]))

\* C17: in phrase mode extractKeywords (either version) returns at most topK
\* strings, each a candidate phrase joined with single spaces, by descending
\* phrase score, the score of a phrase being the sum of the scores of its
\* words; when the phrases are one 3-word phrase of distinct words and two
\* 1-word phrases, all words occurring once, the 3-word phrase comes first.
C17_PhraseMode ==
    call.op \in {"extractKeywords", "extractKeywordsV1"}
        /\ call.mode = "phrases" /\ call.topK >= 0 =>
      /\ call.items = "strings"
      /\ Len(call.result) = Min(call.topK, Len(call.phrases))
      /\ \A n \in DOMAIN call.result :
            /\ call.result[n] \in Range(call.phrases)
            /\ TimesIn(call.result, call.result[n]) <= TimesIn(call.phrases, call.result[n])
            /\ n > 1 => PhraseScoreOf(call.stats, call.result[n - 1])
                          >= PhraseScoreOf(call.stats, call.result[n])
            /\ \A k \in DOMAIN call.phrases :
                  TimesIn(call.result, call.phrases[k]) < TimesIn(call.phrases, call.phrases[k])
                  => PhraseScoreOf(call.stats, call.phrases[k])
                       <= PhraseScoreOf(call.stats, call.result[n])
      /\ IsThreeOneOne(call.phrases) /\ call.topK >= 1 =>
            Len(call.result[1]) = 3

\* the position at which w is first met in the text
FirstPosition(terms, w) ==
    CHOOSE n \in DOMAIN terms : terms[n] = w /\ \A m \in 1..(n - 1) : terms[m] # w

\* word a comes before word b: a higher score, or the same and met earlier
WordBefore(stats, terms, a, b) ==
    \/ stats[a].score > stats[b].score
    \/ /\ stats[a].score = stats[b].score
       /\ FirstPosition(terms, a) < FirstPosition(terms, b)

\* C18: in word mode extractKeywords returns the top-K words by descending
\* score, and two words of equal score appear in the order in which the text
\* first has them, whatever the tokens are made of (digits included).
C18_WordModeTieOrder ==
    call.op \in {"extractKeywords", "extractKeywordsV1"}
        /\ call.mode = "words" /\ call.topK >= 0 =>
      /\ Len(call.result) = Min(call.topK, Cardinality(DOMAIN call.stats))
      /\ \A n \in DOMAIN call.result : call.result[n] \in DOMAIN call.stats
      /\ \A m, n \in DOMAIN call.result :
            m < n => WordBefore(call.stats, textTerms(text), call.result[m], call.result[n])
      /\ \A n \in DOMAIN call.result : \A w \in DOMAIN call.stats :
            w \notin Range(call.result) =>
                WordBefore(call.stats, textTerms(text), call.result[n], w)

\* the explicit k when one is given (k is <<n>>), otherwise
\* max(1, round(proportion * N)), the proportion in percent
TargetOf(k, proportionPct, N) ==
    IF k # <<>> THEN k[1]
    ELSE IF (proportionPct * N + 50) \div 100 >= 1
         THEN (proportionPct * N + 50) \div 100 ELSE 1

\* C19: summarize and summarizeAsync return as many sentences as the target
\* count, which is the explicit k when one is given and otherwise
\* max(1, round(proportion * N)), brought into [1, N] when N >= 1: an
\* explicit k below 1 yields one sentence, a k above N yields N.
C19_TargetCountInRange ==
    call.op \in {"summarize", "summarizeAsync"} /\ call.total >= 1 =>
        LET target == TargetOf(call.k, call.proportionPct, call.total)
        IN  /\ Len(call.result) >= 1
            /\ Len(call.result) <= call.total
            /\ Len(call.result) =
                 (IF target < 1 THEN 1 ELSE IF target > call.total THEN call.total ELSE target)

\* what the claim names: the sentence data as processText built it is what
\* buildSimilarityMatrix and the renderer leave behind, and the matrix as
\* buildSimilarityMatrix built it is what pageRank leaves behind
SentenceDataAndMatrixUntouched(r) ==
    /\ r.graph.sentencesData = r.sentencesData
    /\ r.graph.simMatrixAfter = r.graph.simMatrix
    /\ r.afterRender.sentencesData = r.sentencesData
    /\ \A m \in DOMAIN r.sentencesData :
          /\ r.afterRender.sentencesData[m].sentence = r.text.sents[m]
          /\ RetainedCount(r.text.sents[m]) = Len(r.afterRender.sentencesData[m].tokens)
          /\ DOMAIN r.graph.sentencesData[m].freqMap
               = Range(r.graph.sentencesData[m].tokens)
          /\ \A w \in DOMAIN r.graph.sentencesData[m].freqMap :
                r.graph.sentencesData[m].freqMap[w]
                  = TimesIn(r.graph.sentencesData[m].tokens, w)

-----------------------------------------------------------------------------
(* C21: the keyword chips *)

\* k occurs somewhere in str
ContainsText(str, k) ==
    \E i \in 1..Len(str) : \E j \in i..Len(str) : SubSeq(str, i, j) = k

\* the lower-cased text of the n-th sentence on the page
LowerTextOf(n) == join([m \in 1..Len(rendered.sentences[n]) |->
                          toLowerCase(rendered.sentences[n][m])])

\* the step is a click on the chip of k
ChipClicked(k) == chipLog' # chipLog /\ chipLog'.key = k

\* C21: after any sequence of clicks on the keyword chips of the page, a
\* sentence of the summary is highlighted if and only if its lower-cased text
\* contains an active keyword; a click on a chip toggles the membership of
\* its keyword in the active set and of no other, and a second click on the
\* same chip right after the first restores the active set and the
\* highlighting that were there before the first.
C21_HighlightIffActive ==
    /\ [](\A n \in 1..Len(rendered.sentences) :
            n \in highlighted <=> \E k \in activeKeywords : ContainsText(LowerTextOf(n), k))
    /\ [](highlighted \subseteq 1..Len(rendered.sentences))
    /\ [][\A k \in Range(rendered.keywords) :
            ChipClicked(k) =>
                /\ (k \in activeKeywords') <=> (k \notin activeKeywords)
                /\ activeKeywords' \ {k} = activeKeywords \ {k}
                /\ rendered' = rendered
                /\ (chipLog.key = k =>
                        /\ activeKeywords' = chipLog.active
                        /\ highlighted' = chipLog.highlighted)]_vars

\* a chip was clicked twice in a row while another keyword stays active; of
\* the three sentences on the page two are highlighted, one of them because
\* "said" contains "ai", and the third is not
C21_Witness ==
    /\ Len(rendered.sentences) = 3
    /\ chipLog.key = "data"
    /\ chipLog.active = {"ai", "data"}
    /\ activeKeywords = {"ai"}
    /\ highlighted = {1, 2}
    /\ rendered.sentences[2] = <<"said", "data">>

-----------------------------------------------------------------------------
(* C22: the indices handed to the renderer *)

\* no element of s occurs twice
NoDuplicates(s) == \A m, n \in DOMAIN s : m # n => s[m] # s[n]

\* C22: for every strategy, every text and every K of the slider (0, negative
\* and above N included), the indices handed to the renderer are pairwise
\* different integers in 0..N-1, N the number of sentences of the text, and
\* the renderer reads no sentence that does not exist.
C22_IndicesInRange ==
    \A i \in DOMAIN runs :
        /\ NoDuplicates(runs[i].rankedIndexes)
        /\ \A n \in DOMAIN runs[i].rankedIndexes :
              /\ runs[i].rankedIndexes[n] >= 0
              /\ runs[i].rankedIndexes[n] <= Len(splitSentences(runs[i].text)) - 1
        /\ ~runs[i].threw

\* a run of the simple strategy with K above N on a text of two sentences or
\* more: every index is handed over
C22_Witness ==
    \E i \in DOMAIN runs :
        /\ runs[i].algo = "simple"
        /\ runs[i].total >= 2
        /\ runs[i].topK > runs[i].total
        /\ Len(runs[i].rankedIndexes) = runs[i].total

-----------------------------------------------------------------------------
(* C23: the loading indicator *)

\* the text is empty or whitespace only
IsBlank(t) == t.sents = <<>>

\* the step is a click on the Summarize button
SummarizeClicked == clicks' = clicks + 1

\* the step is the run of a deferred computation
DeferredRan == Len(timers') = Len(timers) - 1

\* C23: a click on Summarize with a text that is not blank shows the loading
\* indicator, hides the results and schedules exactly one deferred
\* computation; the run of a deferred computation renders once (the page is
\* what that run computed), hides the loading indicator and shows the
\* results; so when a text was submitted and no deferred computation is
\* pending, the loading indicator is hidden and the results are shown.
C23_LoadingThenResults ==
    /\ [][SummarizeClicked /\ ~IsBlank(text) =>
            /\ loading' /\ ~results'
            /\ Len(timers') = Len(timers) + 1
            /\ runs' = runs /\ rendered' = rendered]_vars
    /\ [][DeferredRan =>
            /\ Len(runs') = Len(runs) + 1
            /\ ~runs'[Len(runs')].threw
            /\ rendered' = runs'[Len(runs')].page
            /\ ~loading' /\ results']_vars
    /\ []((timers = <<>> /\ \E i \in DOMAIN clickLog : ~IsBlank(clickLog[i].text))
            => ~loading /\ results)

\* two texts were submitted before either computation ran, and both have run
C23_Witness ==
    /\ Len(clickLog) = 2
    /\ ~IsBlank(clickLog[1].text) /\ ~IsBlank(clickLog[2].text)
    /\ clickLog[2].runsBefore = 0
    /\ Len(runs) = 2
    /\ timers = <<>>
    /\ ~loading /\ results /\ ~placeholder

-----------------------------------------------------------------------------
(* C24: several clicks before the deferred computations run *)

\* the text without the whitespace around it
Trimmed(t) == [pad |-> FALSE, sents |-> t.sents]

\* the clicks that submitted a text, in the order they were made
SubmittingClicks == SelectSeq(clickLog, LAMBDA c : ~IsBlank(c.text))

\* the page computed from a text under the given settings of the controls
PageFor(a, t, k, kc) ==
    LET r == Dispatch(a, t, k, kc)
    IN  renderSummaryAndKeywords(r.sentencesData, r.rankedIndexes, r.keywords)

\* C24: when Summarize is clicked several times, the text and the controls
\* possibly edited in between, the deferred computations run in the order of
\* the clicks that scheduled them (the k-th run works on the text captured
\* at the k-th such click, with the controls as they are when it runs), and
\* once the last has run the page shows the summary computed from the text
\* captured at the most recent of these clicks.
C24_RunsInClickOrder ==
    /\ [][DeferredRan =>
            LET k == Len(runs) + 1
                captured == Trimmed(SubmittingClicks[k].text)
            IN  /\ k <= Len(SubmittingClicks)
                /\ runs'[k].text = captured
                /\ runs'[k].page = PageFor(algo, captured, topK, keywordCount)
                /\ rendered' = runs'[k].page]_vars
    /\ []((timers = <<>> /\ SubmittingClicks # <<>>) =>
            LET last == SubmittingClicks[Len(SubmittingClicks)]
            IN  /\ Len(runs) = Len(SubmittingClicks)
                /\ results
                /\ runs[Len(runs)].text = Trimmed(last.text)
                /\ rendered = runs[Len(runs)].page)

\* two different texts were submitted, the second before the first was
\* computed, with the algorithm changed between the two runs; both have run
\* and the page shows the summary of the second text, which is not that of
\* the first
C24_Witness ==
    /\ Len(SubmittingClicks) = 2
    /\ clickLog[2].runsBefore = 0
    /\ Trimmed(clickLog[1].text) # Trimmed(clickLog[2].text)
    /\ Len(runs) = 2 /\ timers = <<>>
    /\ runs[1].algo # runs[2].algo
    /\ rendered = runs[2].page
    /\ rendered.sentences # runs[1].page.sentences
    /\ \A n \in DOMAIN rendered.sentences :
          \E m \in DOMAIN clickLog[2].text.sents :
              rendered.sentences[n] = clickLog[2].text.sents[m]

-----------------------------------------------------------------------------
(* C25: a click on a blank text *)

\* C25: a click on Summarize while the text is empty or whitespace only
\* changes nothing: no deferred computation is scheduled or run, the loading
\* indicator, the placeholder and the results keep their visibility, and
\* the page keeps the summary, the keyword chips and the highlighting that
\* were rendered before.
C25_BlankClickChangesNothing ==
    [][SummarizeClicked /\ IsBlank(text) =>
          /\ timers' = timers
          /\ runs' = runs
          /\ loading' = loading
          /\ placeholder' = placeholder
          /\ results' = results
          /\ rendered' = rendered
          /\ activeKeywords' = activeKeywords
          /\ highlighted' = highlighted]_vars

\* Summarize was clicked on a whitespace-only text after a summary was
\* rendered, and the summary is on display
C25_Witness ==
    /\ Len(clickLog) = 2
    /\ clickLog[2].text = WhitespaceText
    /\ clickLog[2].runsBefore = 1
    /\ timers = <<>>
    /\ rendered.sentences # <<>>
    /\ results /\ ~loading /\ ~placeholder

====
